---- MODULE Spec2Model ----
(***************************************************************************)
(* Model of src/server/SignalingServer.ts: the signaling relay's           *)
(* connection handler, message dispatcher and the join-pool / offer /      *)
(* answer / candidate handlers, over the four in-memory maps of the class. *)
(*                                                                         *)
(* Each inbound message is handled to completion in one step (Node's       *)
(* single-threaded event loop).  An exception that escapes the 'message'   *)
(* listener is an uncaught exception, which ends the Node process.         *)
(*                                                                         *)
(* Two readings of the source are fixed here.  (1) Line 53 registers       *)
(* this.connectionHandler without binding it; the handlers are modelled    *)
(* with `this` being the SignalingServer instance, which is how every      *)
(* handler body is written.  (2) A connection is the net.Socket the source *)
(* declares it to be: address(), end(), write(), and 'message' events      *)
(* whose argument carries the text in .data.  A socket that was ended      *)
(* delivers no further frames.                                             *)
(***************************************************************************)
EXTENDS Integers, Sequences, FiniteSets, TLC

\* ---------------------------------------------------------------- bounds
NumConns == 2
NumAddrs == 2
NumBodies == 1
MaxJoins == 2

Conns == 1..NumConns
Addrs == 1..NumAddrs
Bodies == 1..NumBodies

\* ------------------------------------------------------- absent values
\* payload.target / payload.offer|answer|candidate / payload.channel /
\* data.type / data.payload that are undefined (falsy) in the message.
NoTarget == 0
NoBody == 0
NoChannel == "undefined"
NoType == "undefined"
NoConn == 0
NoAddr == 0
NoError == ""
TypeError == "TypeError"

\* Channel ids a client may choose (any string).  "[object Object]" is the
\* string a Channel object converts to inside a template literal.
ObjectString == "[object Object]"
ChannelIds == {"room1", ObjectString}

MsgTypes == {"join-pool", "offer", "answer", "candidate", "keep-alive", "kill", "other"}

\* The one event name the source uses: emit('p2pupgrade', ...).
EventNames == {"p2pupgrade"}
Observers == {"obs"}

\* A payload object: fields that are undefined carry the absent value.
Payloads ==
    [defined : {TRUE},
     target : Addrs \cup {NoTarget},
     channel : ChannelIds \cup {NoChannel},
     offer : Bodies \cup {NoBody},
     answer : Bodies \cup {NoBody},
     candidate : Bodies \cup {NoBody}]

\* data.payload undefined: reading any field of it raises a TypeError.
NoPayload ==
    [defined |-> FALSE, target |-> NoTarget, channel |-> NoChannel,
     offer |-> NoBody, answer |-> NoBody, candidate |-> NoBody]

\* What a raw frame can be: text JSON.parse rejects ("garbage"), the JSON
\* literal null, a JSON number/string/boolean ("scalar"), or a JSON object.
Forms == {"garbage", "null", "scalar", "object"}

\* The fields a handler of the given type reads; the others are left out of
\* the frames enumerated (no handler looks at them).
FieldsOf(type) ==
    CASE type = "join-pool" -> {"channel"}
      [] type = "offer" -> {"target", "channel", "offer"}
      [] type = "answer" -> {"target", "channel", "answer"}
      [] type = "candidate" -> {"target", "candidate"}
      [] OTHER -> {}

Relevant(type, p) ==
    /\ "target" \notin FieldsOf(type) => p.target = NoTarget
    /\ "channel" \notin FieldsOf(type) => p.channel = NoChannel
    /\ "offer" \notin FieldsOf(type) => p.offer = NoBody
    /\ "answer" \notin FieldsOf(type) => p.answer = NoBody
    /\ "candidate" \notin FieldsOf(type) => p.candidate = NoBody

EmptyPayload ==
    [defined |-> TRUE, target |-> NoTarget, channel |-> NoChannel, offer |-> NoBody,
     answer |-> NoBody, candidate |-> NoBody]

Frames ==
    {[form |-> f, type |-> NoType, payload |-> NoPayload] : f \in {"garbage", "null", "scalar"}}
    \cup {[form |-> "object", type |-> t, payload |-> NoPayload] : t \in MsgTypes \cup {NoType}}
    \cup {[form |-> "object", type |-> NoType, payload |-> EmptyPayload]}
    \cup UNION {{[form |-> "object", type |-> t, payload |-> p] :
                    p \in {q \in Payloads : Relevant(t, q)}} : t \in MsgTypes}

\* data: the parsed frame with data.source set to the socket it came in on.
Data(c, m) == [source |-> c, form |-> m.form, type |-> m.type, payload |-> m.payload]

\* What is remembered of the frame handled last: the socket it came in on,
\* its type, and the target and channel its payload named.
Summary(c, m) ==
    [source |-> c, type |-> m.type,
     target |-> m.payload.target, channel |-> m.payload.channel]

NoData ==
    [source |-> NoConn, type |-> NoType, target |-> NoTarget, channel |-> NoChannel]

\* ---------------------------------------------------------------- state
VARIABLES
    running,        \* the server process is alive
    conn,           \* per socket: [status, addr]
    peerMap,        \* #peerMap: address -> socket
    channels,       \* #channels: channel id -> peers (sequence of addresses)
    pendingOffers,  \* #pendingOffers: set of keys present in the map
    connections,    \* #connections: set of keys present in the map
    listeners,      \* listeners registered on the server's own EventEmitter
    last,           \* summary of the frame handled last
    outcome,        \* how handling it ended: "ok", the message of the error a
                    \* handler threw, "fatal" (socket ended) or "crash"
    writes,         \* connection.write calls made while handling it
    emitted,        \* events emitted on #emitter while handling it
    delivered       \* listener invocations made while handling it

vars == <<running, conn, peerMap, channels, pendingOffers, connections,
          listeners, last, outcome, writes, emitted, delivered>>

\* ------------------------------------------------------------- helpers
\* (connection.address() as AddressInfo).address
Address(c) == conn[c].addr

\* `${channel}` where channel is the Channel object found in #channels
\* (relayOffer's key), against `${payload.channel}`, the id itself
\* (relayAnswer's key).  A plain object converts to "[object Object]".
ChannelObjectToString(id) == ObjectString
ChannelIdToString(id) == id

\* `pendingOffers/${chan}/${from}/${to}`; addresses hold no '/', so the key
\* determines its three parts and is kept as the triple.
PendingKey(chan, from, to) == <<chan, from, to>>

\* `${channel}/${a}#${b}`
ConnectionKey(chan, a, b) == <<chan, a, b>>

\* Mutation of FindPeer: every target is taken to be a member.
FindPeerUnchecked(peers, target) == target

\* channel.peers.find(peer => peer == target): the first equal member, or
\* undefined
FindPeer(peers, target) ==
    IF \E i \in 1..Len(peers) : peers[i] = target THEN target ELSE NoAddr

\* Mutation of DeletePendingOffer: the offer stays in the map.
KeepPendingOffer(offers, key) == offers

\* this.#pendingOffers.delete(key)
DeletePendingOffer(offers, key) == offers \ {key}

\* Total number of entries in the peers lists of the given channel map.
RECURSIVE SumLen(_, _)
SumLen(chans, ids) ==
    IF ids = {} THEN 0
    ELSE LET id == CHOOSE x \in ids : TRUE
         IN  Len(chans[id]) + SumLen(chans, ids \ {id})

Joined(chans) == SumLen(chans, DOMAIN chans)

\* The maps a handler reads and writes, and what it has written and emitted.
Store ==
    [channels |-> channels, pendingOffers |-> pendingOffers,
     connections |-> connections,
     writes |-> <<>>, emitted |-> <<>>, error |-> NoError]

\* throw new Error(message), or a TypeError raised by the runtime
Throw(st, message) == [st EXCEPT !.error = message]

\* Mutation of WriteTo: a peer the map has no socket for is written to
\* without an error.
WriteToUnregistered(st, peer, msg) ==
    IF peer \notin DOMAIN peerMap
    THEN [st EXCEPT !.writes = Append(@, [to |-> NoConn, msg |-> msg])]
    ELSE [st EXCEPT !.writes = Append(@, [to |-> peerMap[peer], msg |-> msg])]

\* this.#peerMap.get(peer).connection.write(JSON.stringify(msg)): a
\* TypeError when the map has no entry for peer
WriteTo(st, peer, msg) ==
    IF peer \notin DOMAIN peerMap \/ peerMap[peer] = NoConn
    THEN Throw(st, TypeError)
    ELSE [st EXCEPT !.writes = Append(@, [to |-> peerMap[peer], msg |-> msg])]

\* ------------------------------------------------------------ handlers
joinPool(data) ==
    LET payload == data.payload
        sender == Address(data.source)
    IN  IF ~payload.defined THEN Throw(Store, TypeError)
        ELSE IF payload.channel = NoChannel
        THEN Throw(Store, "channel property not set in payload")
        ELSE IF payload.channel \notin DOMAIN channels
        THEN [Store EXCEPT !.channels =
                 [id \in DOMAIN channels \cup {payload.channel} |->
                     IF id = payload.channel THEN <<sender>> ELSE channels[id]]]
        ELSE [Store EXCEPT !.channels[payload.channel] = Append(@, sender)]

relayOffer(data) ==
    LET payload == data.payload
        sender == Address(data.source)
    IN  IF ~payload.defined THEN Throw(Store, TypeError)
        ELSE IF payload.target = NoTarget
        THEN Throw(Store, "target property not found on message payload")
        ELSE IF payload.channel = NoChannel
        THEN Throw(Store, "channel property not found on message payload")
        ELSE IF payload.offer = NoBody
        THEN Throw(Store, "offer property not found on message payload")
        ELSE IF payload.channel \notin DOMAIN channels
        THEN Throw(Store, "Channel doesn't exist")
        ELSE LET peer == FindPeer(channels[payload.channel], payload.target) IN
             IF peer = NoAddr THEN Throw(Store, "Peer not in channel!")
             ELSE WriteTo([Store EXCEPT !.pendingOffers = @ \cup
                              {PendingKey(ChannelObjectToString(payload.channel),
                                          sender, payload.target)}],
                          peer,
                          [type |-> "offer", source |-> sender, body |-> payload.offer])

relayAnswer(data) ==
    LET payload == data.payload
        sender == Address(data.source)
    IN  IF ~payload.defined THEN Throw(Store, TypeError)
        ELSE IF payload.target = NoTarget
        THEN Throw(Store, "target property not found on message payload")
        ELSE IF payload.channel = NoChannel
        THEN Throw(Store, "channel property not found on message payload")
        ELSE IF payload.channel = NoChannel
        THEN Throw(Store, "answer property not found on message payload")
        ELSE LET key == PendingKey(ChannelIdToString(payload.channel),
                                   payload.target, sender) IN
             IF key \notin pendingOffers
             THEN Throw(Store, "Offer doesn't exist for given target!")
             ELSE IF payload.channel \notin DOMAIN channels
             THEN Throw(Store, "Channel doesn't exist")
             ELSE LET peer == FindPeer(channels[payload.channel], payload.target) IN
                  IF peer = NoAddr THEN Throw(Store, "Peer not in channel!")
                  ELSE LET sent == WriteTo([Store EXCEPT !.pendingOffers = DeletePendingOffer(@, key)],
                                     peer,
                                     [type |-> "answer", source |-> sender,
                                      body |-> payload.answer])
                       IN  IF sent.error # NoError THEN sent
                           ELSE [sent EXCEPT
                                   !.connections = @ \cup
                                       {ConnectionKey(payload.channel, sender, payload.target),
                                        ConnectionKey(payload.channel, payload.target, sender)},
                                   !.emitted = Append(@,
                                       [emitter |-> "#emitter", event |-> "p2pupgrade",
                                        args |-> <<sender, payload.target>>])]

\* Mutation of passCandidate: the relayed message loses the candidate.
passCandidateWithoutContent(data) ==
    LET payload == data.payload IN
    IF ~payload.defined THEN Throw(Store, TypeError)
    ELSE WriteTo(Store, payload.target,
                 [type |-> "candidate", source |-> NoAddr, body |-> NoBody])

passCandidate(data) ==
    LET payload == data.payload IN
    IF ~payload.defined THEN Throw(Store, TypeError)
    ELSE WriteTo(Store, payload.target,
                 [type |-> "candidate", source |-> NoAddr, body |-> payload.candidate])

\* Mutation of Dispatch: a type without a handler is treated as join-pool.
DispatchDefaultJoins(data) ==
    CASE data.type = "offer" -> relayOffer(data)
      [] data.type = "answer" -> relayAnswer(data)
      [] data.type = "candidate" -> passCandidate(data)
      [] OTHER -> joinPool(data)

\* switch (data.type) inside the second try block
Dispatch(data) ==
    CASE data.type = "join-pool" -> joinPool(data)
      [] data.type = "offer" -> relayOffer(data)
      [] data.type = "answer" -> relayAnswer(data)
      [] data.type = "candidate" -> passCandidate(data)
      [] OTHER -> Store

\* ------------------------------------------------------- notifications
\* The listeners an emit reaches: those registered on the emitter it is
\* called on.  The class registers none on #emitter and exposes it nowhere;
\* embedding code registers on the server object itself (it extends
\* EventEmitter).
ListenersOf(emitter) == IF emitter = "server" THEN listeners ELSE {}

Deliveries(events) ==
    {[to |-> l[2], event |-> events[i].event, args |-> events[i].args] :
        <<i, l>> \in {<<j, k>> \in (1..Len(events)) \X (EventNames \X Observers) :
                        /\ k \in ListenersOf(events[j].emitter)
                        /\ k[1] = events[j].event}}

\* ------------------------------------------------------------- actions
Init ==
    /\ running = TRUE
    /\ conn = [c \in Conns |-> [status |-> "none", addr |-> NoAddr]]
    /\ peerMap = [a \in Addrs |-> NoConn]
    /\ channels = <<>>
    /\ pendingOffers = {}
    /\ connections = {}
    /\ listeners = {}
    /\ last = NoData
    /\ outcome = "none"
    /\ writes = <<>>
    /\ emitted = <<>>
    /\ delivered = {}

\* Sockets and addresses are named in order of first appearance: socket c
\* is the c-th to connect, and a new address is the lowest unused number.
Fresh(c, a) ==
    /\ \A d \in Conns : d < c => conn[d].status # "none"
    /\ \A b \in Addrs : b < a => \E d \in Conns : conn[d].addr = b

\* Mutation of Connect: an address already in the peer map keeps the socket
\* it was first registered with.
ConnectKeepsFirst(c, a) ==
    /\ running
    /\ conn[c].status = "none"
    /\ Fresh(c, a)
    /\ conn' = [conn EXCEPT ![c] = [status |-> "open", addr |-> a]]
    /\ peerMap' = IF peerMap[a] = NoConn THEN [peerMap EXCEPT ![a] = c] ELSE peerMap
    /\ UNCHANGED <<running, channels, pendingOffers, connections, listeners,
                   last, outcome, writes, emitted, delivered>>

\* connectionHandler up to the installation of the 'message' listener
Connect(c, a) ==
    /\ running
    /\ conn[c].status = "none"
    /\ Fresh(c, a)
    /\ conn' = [conn EXCEPT ![c] = [status |-> "open", addr |-> a]]
    /\ peerMap' = [peerMap EXCEPT ![a] = c]
    /\ UNCHANGED <<running, channels, pendingOffers, connections, listeners,
                   last, outcome, writes, emitted, delivered>>

\* server.on(event, listener) by embedding code
Subscribe(o, ev) ==
    /\ running
    /\ \A e \in EventNames : <<e, o>> \notin listeners
    /\ listeners' = listeners \cup {<<ev, o>>}
    /\ UNCHANGED <<running, conn, peerMap, channels, pendingOffers, connections,
                   last, outcome, writes, emitted, delivered>>

\* Mutation of AfterHandlerError: the second catch block ends the socket.
EndAfterHandlerError(c, error) ==
    IF error # NoError THEN [conn EXCEPT ![c].status = "ended"] ELSE conn

\* The sockets after the second try/catch: the catch block only logs.
AfterHandlerError(c, error) == conn

\* The first try block fails: JSON.parse throws, or data.source = connection
\* throws on null or on a primitive, or type or payload is falsy.
FirstTryFails(m) ==
    \/ m.form # "object"
    \/ m.type = NoType
    \/ ~m.payload.defined

\* data.toString() in the first catch block throws when data is undefined
\* (JSON.parse threw) or null; nothing catches it.
CatchBlockThrows(m) == m.form \in {"garbage", "null"}

\* The 'message' listener of connection c, run on frame m.
Receive(c, m) ==
    /\ running
    /\ conn[c].status = "open"
    /\ last' = Summary(c, m)
    /\ UNCHANGED <<peerMap, listeners>>
    /\ IF FirstTryFails(m) /\ CatchBlockThrows(m)
       THEN /\ running' = FALSE
            /\ conn' = [d \in Conns |->
                          IF conn[d].status = "none" THEN conn[d]
                          ELSE [conn[d] EXCEPT !.status = "closed"]]
            /\ outcome' = "crash"
            /\ writes' = <<>>
            /\ emitted' = <<>>
            /\ delivered' = {}
            /\ UNCHANGED <<channels, pendingOffers, connections>>
       ELSE \E r \in {Dispatch(Data(c, m))} :
            /\ Joined(r.channels) <= MaxJoins
            /\ running' = TRUE
            /\ conn' = IF FirstTryFails(m)
                       THEN [conn EXCEPT ![c].status = "ended"]
                       ELSE AfterHandlerError(c, r.error)
            /\ outcome' = IF FirstTryFails(m) THEN "fatal"
                          ELSE IF r.error # NoError THEN r.error ELSE "ok"
            /\ channels' = r.channels
            /\ pendingOffers' = r.pendingOffers
            /\ connections' = r.connections
            /\ writes' = r.writes
            /\ emitted' = r.emitted
            /\ delivered' = Deliveries(r.emitted)

\* The server with no listener registered by embedding code.
Next ==
    \/ \E c \in Conns, a \in Addrs : Connect(c, a)
    \/ \E c \in Conns, m \in Frames : Receive(c, m)

Spec == Init /\ [][Next]_vars

\* The server with embedding code that may register listeners at any time.
NextObserved ==
    \/ \E c \in Conns, a \in Addrs : Connect(c, a)
    \/ \E c \in Conns, m \in Frames : Receive(c, m)
    \/ \E o \in Observers, ev \in EventNames : Subscribe(o, ev)

SpecObserved == Init /\ [][NextObserved]_vars

\* ============================================================== claims
\* The peers of channel id as a set (empty when the channel does not exist).
Members(id) ==
    IF id \in DOMAIN channels
    THEN {channels[id][i] : i \in 1..Len(channels[id])}
    ELSE {}

\* A well-formed frame: a JSON object with a type and a payload object.
WellFormed(m) == m.form = "object" /\ m.type # NoType /\ m.payload.defined

\* The step handles frame m arriving on socket c.
Handled(c, m) == last' = Summary(c, m) /\ Receive(c, m)

AnswerFrames == {m \in Frames : WellFormed(m) /\ m.type = "answer"}

\* The well-formed frame of the given type, target, channel and content.
FrameOf(type, target, channel, body) ==
    [form |-> "object", type |-> type,
     payload |-> [defined |-> TRUE, target |-> target, channel |-> channel,
                  offer |-> IF type = "offer" THEN body ELSE NoBody,
                  answer |-> IF type = "answer" THEN body ELSE NoBody,
                  candidate |-> IF type = "candidate" THEN body ELSE NoBody]]

\* The well-formed frames that agree with the summary the step leaves in
\* last: the step, if it handled a well-formed frame, handled one of these.
StepFrames ==
    {FrameOf(last'.type, last'.target, last'.channel, b) : b \in Bodies \cup {NoBody}}

\* C1: after A's offer {target: B, channel: C} is relayed, with A and B
\* distinct members of C, B's answer {target: A, channel: C} is accepted:
\* B's socket got exactly one offer with source A, A's socket gets exactly
\* one answer with source B, and the ledger then holds (C,A,B) and (C,B,A).
C1_HandshakeAccepted ==
    [][\A c \in Conns, m \in AnswerFrames :
        LET A == Address(last.source)
            B == last.target
            C == last.channel
        IN  ( /\ last.type = "offer" /\ outcome = "ok"
              /\ A # B
              /\ {A, B} \subseteq Members(C)
              /\ m.payload.target = A /\ m.payload.channel = C
              /\ m.payload.answer # NoBody
              /\ Address(c) = B
              /\ Handled(c, m) )
            => ( /\ Len(writes) = 1
                 /\ writes[1].to = peerMap[B]
                 /\ writes[1].msg.type = "offer" /\ writes[1].msg.source = A
                 /\ outcome' = "ok"
                 /\ writes' = <<[to |-> peerMap[A],
                                 msg |-> [type |-> "answer", source |-> B,
                                          body |-> m.payload.answer]]>>
                 /\ {<<C, A, B>>, <<C, B, A>>} \subseteq connections' )]_vars

\* C2: an answer from S naming target T and channel C, when T has no
\* outstanding offer to S in C, fails: nothing is written, the ledger is
\* unchanged and nothing is emitted.  Stated for a sender S that is not a
\* member of C: an offer is relayed only to a member of its channel, so no
\* offer to S in C was ever relayed.
C2_UnsolicitedAnswerFails ==
    [][\A c \in Conns, m \in AnswerFrames :
        ( /\ m.payload.answer # NoBody
          /\ Address(c) \notin Members(m.payload.channel)
          /\ Handled(c, m) )
        => ( /\ writes' = <<>>
             /\ connections' = connections
             /\ emitted' = <<>> )]_vars

\* C3: a successful answer relay from S to T in C removes exactly the
\* pending-offer entry keyed (C,T,S), which was present, adds exactly the
\* ledger entries (C,S,T) and (C,T,S), and changes no other entry.
C3_AnswerConsumesOfferRecordsPair ==
    [][\A c \in Conns, m \in AnswerFrames :
        LET S == Address(c)
            T == m.payload.target
            C == m.payload.channel
        IN  ( /\ outcome' = "ok"
              /\ Handled(c, m) )
            => ( /\ <<C, T, S>> \in pendingOffers
                 /\ pendingOffers' = pendingOffers \ {<<C, T, S>>}
                 /\ connections' = connections \cup {<<C, S, T>>, <<C, T, S>>} )]_vars

\* A successful answer relay has just happened between two distinct peers.
C3_Witness ==
    /\ last.type = "answer" /\ outcome = "ok"
    /\ Address(last.source) # last.target
    /\ <<last.channel, last.target, Address(last.source)>> \notin pendingOffers
    /\ {<<last.channel, Address(last.source), last.target>>,
        <<last.channel, last.target, Address(last.source)>>} \subseteq connections

\* C4: every channel's peers list holds each identity at most once.
C4_MembersUnique ==
    \A id \in DOMAIN channels :
        \A i, j \in 1..Len(channels[id]) :
            i # j => channels[id][i] # channels[id][j]

\* C5: an offer whose channel does not exist, or whose target is not a
\* member of that channel, fails: nothing is written and no pending offer
\* is recorded.
C5_OfferToNonMemberFails ==
    [][(last'.type = "offer" /\ last'.target \notin Members(last'.channel))
       => \A m \in StepFrames :
            Receive(last'.source, m)
            => ( /\ outcome' # "ok"
                 /\ writes' = <<>>
                 /\ pendingOffers' = pendingOffers )]_vars

\* An offer to a connected peer that is not a member of the existing
\* channel it names has just failed.
C5_Witness ==
    /\ last.type = "offer" /\ outcome = "Peer not in channel!"
    /\ last.channel \in DOMAIN channels
    /\ last.target \in Addrs /\ peerMap[last.target] # NoConn
    /\ last.target \notin Members(last.channel)
    /\ writes = <<>>

\* C6: a pending offer or ledger entry is created only for peers that are
\* both members of the channel the frame names: the offer or answer that
\* has just succeeded came from a member and named a member.
C6_EntriesNameMembers ==
    (last.type \in {"offer", "answer"} /\ outcome = "ok")
    => {Address(last.source), last.target} \subseteq Members(last.channel)

MalformedFrames == {m \in Frames : ~WellFormed(m)}

\* C7: a malformed frame closes the socket it arrived on and nothing else:
\* the three maps are unchanged, nothing is written, and every other socket
\* is as it was.
C7_MalformedEndsOnlyItsSocket ==
    [][\A c \in Conns, m \in MalformedFrames :
        Handled(c, m)
        => ( /\ conn'[c].status # "open"
             /\ \A d \in Conns \ {c} : conn'[d] = conn[d]
             /\ channels' = channels
             /\ pendingOffers' = pendingOffers
             /\ connections' = connections
             /\ writes' = <<>> )]_vars

\* C8: no frame stops the server: it is running in every reachable state.
C8_ServerKeepsRunning == running

\* The outcome is the message of an error thrown by a handler.
IsHandlerError(o) == o \notin {"none", "ok", "fatal", "crash"}

C10_UpgradeDelivered ==
    [][\A c \in Conns, m \in AnswerFrames :
        (m.payload.answer # NoBody /\ Address(c) # m.payload.target /\ Handled(c, m))
        => IF outcome' = "ok"
           THEN \A l \in listeners :
                    Cardinality({d \in delivered' : d.to = l[2]}) = 1
                    /\ \A d \in delivered' :
                           d.args = <<Address(c), m.payload.target>>
           ELSE delivered' = {}]_vars

\* C11: a pending offer is consumed at most once.  A successful answer from
\* B to A in C leaves no pending offer (C,A,B), however many times A had sent
\* the offer; and an answer from B to A in C handled while no pending offer
\* from A to B is stored fails: nothing is written, and the pending-offer map
\* and the ledger are unchanged.
C11_OfferConsumedOnce ==
    [][(last'.type = "answer")
       => \A m \in StepFrames :
            LET c == last'.source
                B == Address(c)
                A == m.payload.target
                C == m.payload.channel
            IN  Receive(c, m)
                => /\ outcome' = "ok" => <<C, A, B>> \notin pendingOffers'
                   /\ (\A id \in ChannelIds : <<id, A, B>> \notin pendingOffers)
                      => ( /\ outcome' # "ok"
                           /\ writes' = <<>>
                           /\ pendingOffers' = pendingOffers
                           /\ connections' = connections )]_vars

\* Two distinct peers have completed a handshake in a channel, and a further
\* answer in that channel between them has just failed for lack of an offer.
C11_Witness ==
    /\ last.type = "answer"
    /\ outcome = "Offer doesn't exist for given target!"
    /\ Address(last.source) # last.target
    /\ <<last.channel, Address(last.source), last.target>> \in connections
    /\ \A id \in ChannelIds :
          <<id, last.target, Address(last.source)>> \notin pendingOffers

\* C12: each identity in the peer map maps to a socket that is open, and
\* nothing is written to a socket that is not open.  Stated for the running
\* server.
C12_RegistryNamesOpenSockets ==
    running
    => /\ \A a \in Addrs :
             peerMap[a] # NoConn => conn[peerMap[a]].status = "open"
       /\ \A i \in 1..Len(writes) : conn[writes[i].to].status = "open"

\* C13: an answer frame whose payload lacks target, answer or channel fails
\* before any effect: nothing is written, and the pending-offer map and the
\* ledger are unchanged, whether or not a matching offer is pending.  Stated
\* for an answer that does not name its own sender as target.
C13_IncompleteAnswerFails ==
    [][(last'.type = "answer")
       => \A m \in StepFrames :
            ( /\ \/ m.payload.target = NoTarget
                 \/ m.payload.answer = NoBody
                 \/ m.payload.channel = NoChannel
              /\ Address(last'.source) # m.payload.target
              /\ Receive(last'.source, m) )
            => ( /\ outcome' # "ok"
                 /\ writes' = <<>>
                 /\ pendingOffers' = pendingOffers
                 /\ connections' = connections )]_vars

\* C14: a successful offer from S to T in C stores a pending offer under the
\* key (C,S,T) and under no other new key, writes exactly one message, to
\* T's socket, of type offer with source S and the offer received, and
\* leaves the channel map and the ledger unchanged.  Stated for T other
\* than S.
C14_OfferRecordedAndForwarded ==
    [][(last'.type = "offer" /\ outcome' = "ok")
       => \A m \in StepFrames :
            LET c == last'.source
                S == Address(c)
                T == m.payload.target
                C == m.payload.channel
            IN  (S # T /\ Receive(c, m))
                => ( /\ <<C, S, T>> \in pendingOffers'
                     /\ pendingOffers' \ pendingOffers \subseteq {<<C, S, T>>}
                     /\ writes' = <<[to |-> peerMap[T],
                                     msg |-> [type |-> "offer", source |-> S,
                                              body |-> m.payload.offer]]>>
                     /\ channels' = channels
                     /\ connections' = connections )]_vars

\* C15: a candidate frame whose target is in the peer map causes exactly one
\* write, to the socket the map holds for the target, of a candidate message
\* carrying the candidate received, whatever channels sender and target are
\* in; the channel map, the pending-offer map and the ledger are unchanged.
C15_CandidateRelayed ==
    [][(last'.type = "candidate" /\ last'.target # NoTarget
        /\ peerMap[last'.target] # NoConn)
       => \A m \in StepFrames :
            Receive(last'.source, m)
            => ( /\ outcome' = "ok"
                 /\ writes' = <<[to |-> peerMap[m.payload.target],
                                 msg |-> [type |-> "candidate", source |-> NoAddr,
                                          body |-> m.payload.candidate]]>>
                 /\ channels' = channels
                 /\ pendingOffers' = pendingOffers
                 /\ connections' = connections )]_vars

\* A candidate has just been relayed to another peer's socket while no
\* channel exists, so neither sender nor target is a member of any.
C15_Witness ==
    /\ last.type = "candidate" /\ outcome = "ok"
    /\ channels = <<>>
    /\ Len(writes) = 1
    /\ writes[1].to = peerMap[last.target]
    /\ writes[1].to # last.source
    /\ writes[1].msg.body # NoBody

IgnoredTypes == {"keep-alive", "kill", "other"}

\* C17: a well-formed frame of type keep-alive, kill or an unrecognized type
\* does nothing: the peer map, the channel map, the pending-offer map and
\* the ledger are unchanged, nothing is written or emitted, no error is
\* raised, and every socket is as it was (the sender's stays open).
C17_IgnoredTypesDoNothing ==
    [][(last'.type \in IgnoredTypes)
       => \A m \in StepFrames :
            Receive(last'.source, m)
            => ( /\ outcome' = "ok"
                 /\ peerMap' = peerMap
                 /\ channels' = channels
                 /\ pendingOffers' = pendingOffers
                 /\ connections' = connections
                 /\ writes' = <<>>
                 /\ emitted' = <<>>
                 /\ conn' = conn
                 /\ conn'[last'.source].status = "open" )]_vars

\* A frame of an ignored type has just been handled while a channel and a
\* pending offer exist, and the socket it came in on is open.
C17_Witness ==
    /\ last.type \in IgnoredTypes /\ outcome = "ok"
    /\ channels # <<>> /\ pendingOffers # {}
    /\ writes = <<>>
    /\ conn[last.source].status = "open"

\* The types the switch calls a handler for.
HandlerTypes == {"join-pool", "offer", "answer", "candidate"}

\* C18: a join-pool, offer, answer or candidate frame whose handler throws
\* has no effect: the channel map, the pending-offer map and the ledger are
\* as they were before the frame, and nothing is written.
C18_FailedHandlerHasNoEffect ==
    [][(IsHandlerError(outcome') /\ last'.type \in HandlerTypes)
       => ( /\ channels' = channels
            /\ pendingOffers' = pendingOffers
            /\ connections' = connections
            /\ writes' = <<>>
            /\ emitted' = <<>> )]_vars

\* An answer has just failed at the last check of its handler, after the
\* pending offer it names was found.
C18_Witness ==
    /\ last.type = "answer" /\ outcome = "Peer not in channel!"
    /\ <<last.channel, last.target, Address(last.source)>> \in pendingOffers
    /\ last.channel \in DOMAIN channels
    /\ writes = <<>>

\* relayOffer has stored an offer from peer from to peer to, and no answer
\* has consumed it.
OfferStored(offers, chan, from, to) ==
    PendingKey(ChannelObjectToString(chan), from, to) \in offers

\* C19: crossing offers are tracked independently.  In a state where C is
\* the only channel, S and T are distinct members of it and T's offer to S
\* is stored, an answer from S to T in C succeeds, consumes that offer and
\* leaves an offer from S to T as it was; this holds both when S's own offer
\* to T is still stored (the first of the two answers) and when the ledger
\* already holds the pair (the second one).
C19_CrossingOffersIndependent ==
    [][(last'.type = "answer" /\ DOMAIN channels = {last'.channel})
       => \A m \in StepFrames :
            LET c == last'.source
                S == Address(c)
                T == m.payload.target
                C == m.payload.channel
            IN  ( /\ m.payload.answer # NoBody
                  /\ S # T
                  /\ {S, T} \subseteq Members(C)
                  /\ OfferStored(pendingOffers, C, T, S)
                  /\ \/ OfferStored(pendingOffers, C, S, T)
                     \/ <<C, S, T>> \in connections
                  /\ Receive(c, m) )
                => ( /\ outcome' = "ok"
                     /\ ~OfferStored(pendingOffers', C, T, S)
                     /\ OfferStored(pendingOffers', C, S, T)
                          = OfferStored(pendingOffers, C, S, T)
                     /\ {<<C, S, T>>, <<C, T, S>>} \subseteq connections' )]_vars

\* The sockets that connected from address a, and the last of them to
\* connect (sockets are numbered in the order they connect).
SocketsOf(sockets, a) == {d \in Conns : sockets[d].addr = a}

LatestSocket(sockets, a) ==
    IF SocketsOf(sockets, a) = {} THEN NoConn
    ELSE CHOOSE d \in SocketsOf(sockets, a) :
             \A e \in SocketsOf(sockets, a) : e <= d

\* C20: the peer map holds one socket per address, the last to connect from
\* it; every offer, answer or candidate is written to the last socket that
\* connected from its target address, never to an earlier one, and an offer
\* or answer carries as source the address of the socket it arrived on.
C20_LaterSocketReplacesEarlier ==
    [][/\ \A a \in Addrs : peerMap'[a] = LatestSocket(conn', a)
       /\ (last'.type \in {"offer", "answer", "candidate"} /\ writes' # <<>>)
          => \A m \in StepFrames :
               Receive(last'.source, m)
               => \A i \in 1..Len(writes') :
                     /\ writes'[i].to = LatestSocket(conn, m.payload.target)
                     /\ m.type # "candidate"
                        => writes'[i].msg.source = Address(last'.source)]_vars

\* Two sockets have connected from one address, and an offer that arrived on
\* the earlier one, addressed to that address, has just been written to the
\* later one.
C20_Witness ==
    /\ conn[1].status = "open" /\ conn[2].status = "open"
    /\ conn[1].addr = conn[2].addr
    /\ last.type = "offer" /\ outcome = "ok"
    /\ last.source = 1 /\ last.target = conn[1].addr
    /\ Len(writes) = 1
    /\ writes[1].to = 2
    /\ writes[1].msg.source = conn[2].addr

====
